---- MODULE Spec2Model ----
(***************************************************************************)
(* werpy (weighted fork): word error rate and edit breakdown.              *)
(*                                                                         *)
(*   calculations(reference, hypothesis)   src/werpy/metrics.py 18-97      *)
(*   metrics(reference, hypothesis)        src/werpy/metrics.py 100-121    *)
(*   wers(reference, hypothesis)           src/werpy/wers.py 14-60         *)
(*                                                                         *)
(* Spec      runs one call of calculations statement by statement.         *)
(* BatchSpec runs one call of wers over np.vectorize(calculations).        *)
(***************************************************************************)
EXTENDS Integers, Sequences, FiniteSets, TLC

\* ------------------------------------------------------------------ bounds

\* Longest reference / hypothesis, in words, that Init draws.
MaxLen == 3

\* Longest collection of texts that BatchInit hands to wers.
MaxBatch == 3

\* Words the reference and the hypothesis are drawn from: "a" and "c" are
\* shared, "b" occurs only in references and "x" only in hypotheses.
RefTokens == {"a", "b", "c"}
HypTokens == {"a", "x", "c"}

RECURSIVE SeqsOfLen(_, _)
SeqsOfLen(S, k) ==
    IF k = 0 THEN {<<>>}
    ELSE {Append(s, t) : s \in SeqsOfLen(S, k - 1), t \in S}

SeqsUpTo(S, k) == UNION {SeqsOfLen(S, l) : l \in 0..k}

\* ------------------------------------------------------------ pure helpers

\* A reverse() that was forgotten: the list stays in backtrace order.
ReverseKeepsOrder(s) == s

\* list.reverse()
Reverse(s) == [k \in 1..Len(s) |-> s[Len(s) + 1 - k]]

\* Python's three-argument min on integers.
Min3(x, y, z) ==
    IF x <= y /\ x <= z THEN x ELSE IF y <= z THEN y ELSE z

\* A division guarded against m = 0 that reports 0.0 instead.
TrueDivideGuarded(x, y) ==
    IF y # 0 THEN [kind |-> "float", num |-> x, den |-> y]
    ELSE [kind |-> "float", num |-> 0, den |-> 1]

\* ld / m with ld a numpy integer scalar: numpy true division yields a
\* float64; a zero divisor yields nan (0/0) or inf (x/0, x > 0) with a
\* RuntimeWarning and raises nothing.  A finite quotient is kept as the exact
\* fraction num/den.
TrueDivide(x, y) ==
    IF y # 0 THEN [kind |-> "float", num |-> x, den |-> y]
    ELSE IF x = 0 THEN [kind |-> "nan", num |-> 0, den |-> 0]
    ELSE [kind |-> "inf", num |-> 0, den |-> 0]

\* The unset value of wer before line 69 has run.
NoWer == [kind |-> "unset", num |-> 0, den |-> 0]

\* --------------------------------------------------------------- the state

VARIABLES
    reference_word,     \* reference.split()
    hypothesis_word,    \* hypothesis.split()
    i, j,               \* the loop indices, shared by all loops
    ni, nj,             \* the next value each running range() will yield
    ldm,                \* the (m+1) x (n+1) matrix
    ld, wer,
    insertions, deletions, substitutions,
    inserted_words, deleted_words, substituted_words,
    pc,                 \* the statement calculations is at
    matches,            \* history: match steps the backtrace has taken
    ins_trace, del_trace, sub_trace,
                        \* history: the positions (1-based) the backtrace
                        \* recorded, in the order it recorded them
    reference,          \* the first argument of wers
    hypothesis,         \* the second argument of wers
    stage,              \* the statement wers / np.vectorize is at
    idx,                \* the element the vectorized loop is at (1-based)
    results,            \* the arrays calculations has returned to the loop
    raised,             \* the exception metrics raised, or "none"
    printed,            \* the diagnostic wers printed, or "none"
    wers_result         \* what wers returned

vars == <<reference_word, hypothesis_word, i, j, ni, nj, ldm, ld, wer,
          insertions, deletions, substitutions,
          inserted_words, deleted_words, substituted_words, pc,
          matches, ins_trace, del_trace, sub_trace,
          reference, hypothesis, stage, idx, results, raised, printed,
          wers_result>>

\* m, n = len(reference_word), len(hypothesis_word)
m == Len(reference_word)
n == Len(hypothesis_word)

counters == <<insertions, deletions, substitutions>>
lists == <<inserted_words, deleted_words, substituted_words>>
history == <<matches, ins_trace, del_trace, sub_trace>>
batch == <<reference, hypothesis, stage, idx, results, raised, printed,
           wers_result>>
inputs == <<reference_word, hypothesis_word, batch>>

\* wers has returned nothing (None).
Absent == [shape |-> "absent", vals |-> <<>>]

\* No call of wers is under way: calculations was called directly.
BatchIdle ==
    /\ reference = <<>> /\ hypothesis = <<>>
    /\ stage = "direct" /\ idx = 0 /\ results = <<>>
    /\ raised = "none" /\ printed = "none" /\ wers_result = Absent

\* Lines 45-50: split both texts, i, j = 0, 0, ldm = np.zeros(...).
Init ==
    /\ reference_word \in SeqsUpTo(RefTokens, MaxLen)
    /\ hypothesis_word \in SeqsUpTo(HypTokens, MaxLen)
    /\ i = 0 /\ j = 0
    /\ ni = 0 /\ nj = 0
    /\ ldm = [c \in (0..Len(reference_word)) \X (0..Len(hypothesis_word)) |-> 0]
    /\ ld = 0 /\ wer = NoWer
    /\ insertions = 0 /\ deletions = 0 /\ substitutions = 0
    /\ inserted_words = <<>> /\ deleted_words = <<>> /\ substituted_words = <<>>
    /\ pc = "border_i"
    /\ matches = 0
    /\ ins_trace = <<>> /\ del_trace = <<>> /\ sub_trace = <<>>
    /\ BatchIdle

\* Lines 51-52: for i in range(m + 1): ldm[i, 0] = i
BorderI ==
    /\ pc = "border_i"
    /\ ni <= m
    /\ i' = ni
    /\ ldm' = [ldm EXCEPT ![<<ni, 0>>] = ni]
    /\ ni' = ni + 1
    /\ UNCHANGED <<inputs, j, nj, ld, wer, counters, lists, pc, history>>

\* Line 53: the first loop is exhausted, the second starts.
BorderIDone ==
    /\ pc = "border_i"
    /\ ni > m
    /\ pc' = "border_j"
    /\ nj' = 0
    /\ UNCHANGED <<inputs, i, j, ni, ldm, ld, wer, counters, lists, history>>

\* A border loop over a variable of its own, which leaves j alone.
BorderJOwnIndex ==
    /\ pc = "border_j"
    /\ nj <= n
    /\ ldm' = [ldm EXCEPT ![<<0, nj>>] = nj]
    /\ nj' = nj + 1
    /\ UNCHANGED <<inputs, i, j, ni, ld, wer, counters, lists, pc, history>>

\* Lines 53-54: for j in range(n + 1): ldm[0, j] = j
BorderJ ==
    /\ pc = "border_j"
    /\ nj <= n
    /\ j' = nj
    /\ ldm' = [ldm EXCEPT ![<<0, nj>>] = nj]
    /\ nj' = nj + 1
    /\ UNCHANGED <<inputs, i, ni, ld, wer, counters, lists, pc, history>>

\* Line 56: the border is done, the outer fill loop starts at 1.
BorderJDone ==
    /\ pc = "border_j"
    /\ nj > n
    /\ pc' = "fill_outer"
    /\ ni' = 1
    /\ UNCHANGED <<inputs, i, j, nj, ldm, ld, wer, counters, lists, history>>

\* Line 56: for i in range(1, m + 1): the next row; line 57 starts at 1.
FillOuter ==
    /\ pc = "fill_outer"
    /\ ni <= m
    /\ i' = ni
    /\ ni' = ni + 1
    /\ nj' = 1
    /\ pc' = "fill_inner"
    /\ UNCHANGED <<inputs, j, ldm, ld, wer, counters, lists, history>>

\* A fill without the match case of lines 58-59.
FillValueNoMatch(D, a, b) ==
    Min3(D[<<a - 1, b - 1>>] + 4, D[<<a, b - 1>>] + 3, D[<<a - 1, b>>] + 3)

\* Lines 58-66: the value one interior cell gets.
FillValue(D, a, b) ==
    IF reference_word[a] = hypothesis_word[b]
    THEN D[<<a - 1, b - 1>>]
    ELSE Min3(D[<<a - 1, b - 1>>] + 4, D[<<a, b - 1>>] + 3, D[<<a - 1, b>>] + 3)

\* Lines 57-66: for j in range(1, n + 1): fill ldm[i, j].
FillInner ==
    /\ pc = "fill_inner"
    /\ nj <= n
    /\ j' = nj
    /\ ldm' = [ldm EXCEPT ![<<i, nj>>] = FillValue(ldm, i, nj)]
    /\ nj' = nj + 1
    /\ UNCHANGED <<inputs, i, ni, ld, wer, counters, lists, pc, history>>

\* Line 57 exhausted: back to line 56.
FillInnerDone ==
    /\ pc = "fill_inner"
    /\ nj > n
    /\ pc' = "fill_outer"
    /\ UNCHANGED <<inputs, i, j, ni, nj, ldm, ld, wer, counters, lists, history>>

\* Lines 68-73: ld = ldm[i, j] at whatever the loops left in i and j,
\* wer = ld / m, the counters and lists reset, i, j = m, n.
ReadDistance ==
    /\ pc = "fill_outer"
    /\ ni > m
    /\ ld' = ldm[<<i, j>>]
    /\ wer' = TrueDivide(ldm[<<i, j>>], m)
    /\ insertions' = 0 /\ deletions' = 0 /\ substitutions' = 0
    /\ inserted_words' = <<>> /\ deleted_words' = <<>> /\ substituted_words' = <<>>
    /\ i' = m /\ j' = n
    /\ pc' = "backtrace"
    /\ UNCHANGED <<inputs, ni, nj, ldm, history>>

\* The conditions of lines 75, 79, 84 and 88.
IsMatch == i > 0 /\ j > 0 /\ reference_word[i] = hypothesis_word[j]
IsSubstitution == i > 0 /\ j > 0 /\ ldm[<<i, j>>] = ldm[<<i - 1, j - 1>>] + 1
IsInsertion == j > 0 /\ ldm[<<i, j>>] = ldm[<<i, j - 1>>] + 1
IsDeletion == i > 0 /\ ldm[<<i, j>>] = ldm[<<i - 1, j>>] + 1

InLoop == pc = "backtrace" /\ (i > 0 \/ j > 0)

\* Lines 75-77.
BacktraceMatch ==
    /\ InLoop
    /\ IsMatch
    /\ i' = i - 1 /\ j' = j - 1
    /\ matches' = matches + 1
    /\ UNCHANGED <<inputs, ni, nj, ldm, ld, wer, counters, lists, pc,
                   ins_trace, del_trace, sub_trace>>

\* Lines 79-83: the substitution branch.
TakeSubstitution ==
    /\ substitutions' = substitutions + 1
    /\ substituted_words' =
           Append(substituted_words, <<reference_word[i], hypothesis_word[j]>>)
    /\ sub_trace' = Append(sub_trace, <<i, j>>)
    /\ i' = i - 1 /\ j' = j - 1
    /\ UNCHANGED <<insertions, deletions, inserted_words, deleted_words,
                   ins_trace, del_trace>>

\* Lines 84-87: the insertion branch.
TakeInsertion ==
    /\ insertions' = insertions + 1
    /\ inserted_words' = Append(inserted_words, hypothesis_word[j])
    /\ ins_trace' = Append(ins_trace, j)
    /\ j' = j - 1
    /\ UNCHANGED <<i, deletions, substitutions, deleted_words,
                   substituted_words, del_trace, sub_trace>>

\* A deletion branch that forgets deletions += 1.
TakeDeletionUncounted ==
    /\ deleted_words' = Append(deleted_words, reference_word[i])
    /\ del_trace' = Append(del_trace, i)
    /\ i' = i - 1
    /\ UNCHANGED <<j, insertions, deletions, substitutions, inserted_words,
                   substituted_words, ins_trace, sub_trace>>

\* Lines 88-91: the deletion branch.
TakeDeletion ==
    /\ deletions' = deletions + 1
    /\ deleted_words' = Append(deleted_words, reference_word[i])
    /\ del_trace' = Append(del_trace, i)
    /\ i' = i - 1
    /\ UNCHANGED <<j, insertions, substitutions, inserted_words,
                   substituted_words, ins_trace, sub_trace>>

\* Lines 78-91: the if / elif / elif chain, when one of its tests holds.
BacktraceEdit ==
    /\ InLoop
    /\ ~IsMatch
    /\ IsSubstitution \/ IsInsertion \/ IsDeletion
    /\ IF IsSubstitution THEN TakeSubstitution
       ELSE IF IsInsertion THEN TakeInsertion
       ELSE TakeDeletion
    /\ UNCHANGED <<inputs, ni, nj, ldm, ld, wer, pc, matches>>

\* Lines 74-91 when no condition holds: the iteration changes nothing and
\* the while loop tests the same (i, j) again.
BacktraceSpin ==
    /\ InLoop
    /\ ~IsMatch
    /\ ~IsSubstitution
    /\ ~IsInsertion
    /\ ~IsDeletion
    /\ UNCHANGED vars

\* Line 93: the while loop has ended; the three lists are reversed.
ReverseLists ==
    /\ pc = "backtrace"
    /\ ~(i > 0 \/ j > 0)
    /\ inserted_words' = Reverse(inserted_words)
    /\ deleted_words' = Reverse(deleted_words)
    /\ substituted_words' = Reverse(substituted_words)
    /\ pc' = "done"
    /\ UNCHANGED <<inputs, i, j, ni, nj, ldm, ld, wer, counters, history>>

\* Lines 95-97: the array calculations returns.
Returned == pc = "done"

Next ==
    \/ BorderI
    \/ BorderIDone
    \/ BorderJ
    \/ BorderJDone
    \/ FillOuter
    \/ FillInner
    \/ FillInnerDone
    \/ ReadDistance
    \/ BacktraceMatch
    \/ BacktraceEdit
    \/ BacktraceSpin
    \/ ReverseLists

Spec == Init /\ [][Next]_vars

\* ------------------------------------------------- metrics and wers (batch)

\* One element handed to wers: a text, held as the words split() gives, or
\* a number (which has no split method).
Text(w) == [type |-> "str", words |-> w]
Number == [type |-> "int", words |-> <<>>]

\* The elements references and hypotheses are drawn from.
RefElems == {Text(<<"a">>), Text(<<"a", "a">>), Number}
HypElems == {Text(<<"a">>), Text(<<"x">>)}

\* An argument of wers: a single element or a list of elements.
Scalar(e) == [shape |-> "scalar", elems |-> <<e>>]
List(es) == [shape |-> "list", elems |-> es]

Arguments(E) ==
    {Scalar(e) : e \in E} \cup {List(es) : es \in SeqsUpTo(E, MaxBatch)}

\* arg.size of np.asarray(arg).
Size(arg) == Len(arg.elems)

\* np.asarray(arg).flat[0], the element np.vectorize probes the function
\* with: asarray turns a list that mixes texts and numbers into an array of
\* strings, so a number in it becomes its one-word decimal text; a list of
\* numbers only, or a single number, stays numeric.
FirstAsArray(arg) ==
    LET first == arg.elems[1] IN
    IF first.type = "str" THEN first
    ELSE IF \E k \in 1..Len(arg.elems) : arg.elems[k].type = "str"
         THEN Text(<<"7">>)
         ELSE Number

\* numpy broadcasting of a 0-d or 1-d shape against another: the length of
\* the result, or -1 when the shapes do not broadcast.
BroadcastLen(a, b) ==
    IF a.shape = "scalar" THEN Size(b)
    ELSE IF b.shape = "scalar" THEN Size(a)
    ELSE IF Size(a) = Size(b) THEN Size(a)
    ELSE IF Size(a) = 1 THEN Size(b)
    ELSE IF Size(b) = 1 THEN Size(a)
    ELSE -1

\* The element of arg the broadcast loop pairs at index k.
ElementAt(arg, k) ==
    IF Size(arg) = 1 THEN arg.elems[1] ELSE arg.elems[k]

\* Lines 45-50 on entry to calculations(r, h) for two texts.
Enter(r, h) ==
    /\ reference_word' = r.words
    /\ hypothesis_word' = h.words
    /\ i' = 0 /\ j' = 0
    /\ ni' = 0 /\ nj' = 0
    /\ ldm' = [c \in (0..Len(r.words)) \X (0..Len(h.words)) |-> 0]
    /\ ld' = 0 /\ wer' = NoWer
    /\ insertions' = 0 /\ deletions' = 0 /\ substitutions' = 0
    /\ inserted_words' = <<>> /\ deleted_words' = <<>>
    /\ substituted_words' = <<>>
    /\ pc' = "border_i"
    /\ matches' = 0
    /\ ins_trace' = <<>> /\ del_trace' = <<>> /\ sub_trace' = <<>>

\* calculations is not running.
calc == <<reference_word, hypothesis_word, i, j, ni, nj, ldm, ld, wer,
          insertions, deletions, substitutions,
          inserted_words, deleted_words, substituted_words, pc,
          matches, ins_trace, del_trace, sub_trace>>

\* Lines 95-97: the array calculations returns.
Record ==
    [wer |-> wer, ld |-> ld, m |-> m,
     insertions |-> insertions, deletions |-> deletions,
     substitutions |-> substitutions,
     inserted_words |-> inserted_words, deleted_words |-> deleted_words,
     substituted_words |-> substituted_words]

\* wers(reference, hypothesis) is called; calculations is not running yet.
BatchInit ==
    /\ reference \in Arguments(RefElems)
    /\ hypothesis \in Arguments(HypElems)
    /\ stage = "metrics" /\ idx = 0 /\ results = <<>>
    /\ raised = "none" /\ printed = "none" /\ wers_result = Absent
    /\ reference_word = <<>> /\ hypothesis_word = <<>>
    /\ i = 0 /\ j = 0 /\ ni = 0 /\ nj = 0
    /\ ldm = [c \in (0..0) \X (0..0) |-> 0]
    /\ ld = 0 /\ wer = NoWer
    /\ insertions = 0 /\ deletions = 0 /\ substitutions = 0
    /\ inserted_words = <<>> /\ deleted_words = <<>> /\ substituted_words = <<>>
    /\ pc = "idle"
    /\ matches = 0
    /\ ins_trace = <<>> /\ del_trace = <<>> /\ sub_trace = <<>>

\* metrics.py 119-120, np.vectorize without otypes: an argument of size 0
\* is a ValueError.
VectorizeEmpty ==
    /\ stage = "metrics"
    /\ Size(reference) = 0 \/ Size(hypothesis) = 0
    /\ raised' = "ValueError"
    /\ stage' = "except"
    /\ UNCHANGED <<calc, reference, hypothesis, idx, results, printed,
                   wers_result>>

\* metrics.py 119-120: np.vectorize calls calculations on the first
\* elements to learn the output type, before it looks at the shapes.
VectorizeProbe ==
    /\ stage = "metrics"
    /\ Size(reference) > 0 /\ Size(hypothesis) > 0
    /\ LET r == FirstAsArray(reference)
           h == FirstAsArray(hypothesis) IN
       IF r.type = "str" /\ h.type = "str"
       THEN /\ Enter(r, h)
            /\ stage' = "probe"
            /\ UNCHANGED raised
       ELSE \* metrics.py 45-46: .split() of a number
            /\ raised' = "AttributeError"
            /\ stage' = "except"
            /\ UNCHANGED calc
    /\ UNCHANGED <<reference, hypothesis, idx, results, printed, wers_result>>

\* metrics.py 120: the probe has returned; the ufunc broadcasts the two
\* arguments, which is a ValueError when their shapes do not broadcast.
VectorizeBroadcast ==
    /\ stage = "probe"
    /\ pc = "done"
    /\ IF BroadcastLen(reference, hypothesis) < 0
       THEN raised' = "ValueError" /\ stage' = "except" /\ UNCHANGED idx
       ELSE raised' = raised /\ stage' = "loop" /\ idx' = 1
    /\ UNCHANGED <<calc, reference, hypothesis, results, printed, wers_result>>

\* metrics.py 120: the ufunc calls calculations on the next pair.
VectorizeCall ==
    /\ stage = "loop"
    /\ idx <= BroadcastLen(reference, hypothesis)
    /\ LET r == ElementAt(reference, idx)
           h == ElementAt(hypothesis, idx) IN
       IF r.type = "str" /\ h.type = "str"
       THEN /\ Enter(r, h)
            /\ stage' = "element"
            /\ UNCHANGED raised
       ELSE \* metrics.py 45-46: .split() of a number
            /\ raised' = "AttributeError"
            /\ stage' = "except"
            /\ UNCHANGED calc
    /\ UNCHANGED <<reference, hypothesis, idx, results, printed, wers_result>>

\* metrics.py 120: calculations has returned; its array is stored in order.
VectorizeStore ==
    /\ stage = "element"
    /\ pc = "done"
    /\ results' = Append(results, Record)
    /\ idx' = idx + 1
    /\ stage' = "loop"
    /\ UNCHANGED <<calc, reference, hypothesis, raised, printed, wers_result>>

\* metrics.py 121: every pair is done, metrics returns the result.
MetricsReturn ==
    /\ stage = "loop"
    /\ idx > BroadcastLen(reference, hypothesis)
    /\ stage' = "else"
    /\ UNCHANGED <<calc, reference, hypothesis, idx, results, raised, printed,
                   wers_result>>

\* The result of metrics is 0-d input x 0-d input: one array of nine fields.
ScalarResult == reference.shape = "scalar" /\ hypothesis.shape = "scalar"

\* wers.py 49-53: the two except clauses print and fall off the end.
WersExcept ==
    /\ stage = "except"
    /\ printed' = raised
    /\ wers_result' = Absent
    /\ stage' = "returned"
    /\ UNCHANGED <<calc, reference, hypothesis, idx, results, raised>>

\* wers.py 54-60: the wer field of every record, or of the one record.
WersElse ==
    /\ stage = "else"
    /\ wers_result' =
           IF ScalarResult
           THEN [shape |-> "scalar", vals |-> <<results[1].wer>>]
           ELSE [shape |-> "list",
                 vals |-> [k \in 1..Len(results) |-> results[k].wer]]
    /\ stage' = "returned"
    /\ UNCHANGED <<calc, reference, hypothesis, idx, results, raised, printed>>

BatchNext ==
    \/ VectorizeEmpty
    \/ VectorizeProbe
    \/ VectorizeBroadcast
    \/ VectorizeCall
    \/ VectorizeStore
    \/ MetricsReturn
    \/ WersExcept
    \/ WersElse
    \/ BorderI
    \/ BorderIDone
    \/ BorderJ
    \/ BorderJDone
    \/ FillOuter
    \/ FillInner
    \/ FillInnerDone
    \/ ReadDistance
    \/ BacktraceMatch
    \/ BacktraceEdit
    \/ BacktraceSpin
    \/ ReverseLists

BatchSpec == BatchInit /\ [][BatchNext]_vars

\* ---------------------------------------------------------------- claims

\* calculations has computed ld and wer (line 69 has run).
Measured == pc \in {"backtrace", "done"}

\* The matrix of the border D[i][0] = i, D[0][j] = j and the interior rule.
RECURSIVE BorderedMatrix(_, _)
BorderedMatrix(a, b) ==
    IF b = 0 THEN a
    ELSE IF a = 0 THEN b
    ELSE IF reference_word[a] = hypothesis_word[b]
         THEN BorderedMatrix(a - 1, b - 1)
         ELSE Min3(BorderedMatrix(a - 1, b - 1) + 4,
                   BorderedMatrix(a, b - 1) + 3,
                   BorderedMatrix(a - 1, b) + 3)

\* The cheapest edit script turning the first a reference words into the
\* first b hypothesis words: match 0, insertion 3, deletion 3, substitution 4.
RECURSIVE WeightedCost(_, _)
WeightedCost(a, b) ==
    IF b = 0 THEN 3 * a
    ELSE IF a = 0 THEN 3 * b
    ELSE Min3(WeightedCost(a - 1, b - 1)
                  + (IF reference_word[a] = hypothesis_word[b] THEN 0 ELSE 4),
              WeightedCost(a, b - 1) + 3,
              WeightedCost(a - 1, b) + 3)

\* The positions at which reference and hypothesis (of equal length) differ.
Differing == {p \in 1..m : reference_word[p] # hypothesis_word[p]}

\* The position of the k-th entry of a reversed list whose entries were
\* recorded in the order trace.
PosOf(trace, k) == trace[Len(trace) + 1 - k]

\* C1: the backtrace terminates for every pair: in every state of the loop
\* with i > 0 or j > 0 one of the match / substitution / insertion /
\* deletion branches fires (and so decreases i + j).
C1_BacktraceProgress ==
    InLoop => IsMatch \/ IsSubstitution \/ IsInsertion \/ IsDeletion

\* C2: for a reference and a hypothesis of equal length that differ at
\* exactly one position p, calculations returns distance 4, wer 4/m, one
\* substitution (reference[p], hypothesis[p]), no insertion and no deletion.
C2_SingleSubstitution ==
    (Returned /\ m = n /\ Cardinality(Differing) = 1) =>
        LET p == CHOOSE q \in Differing : TRUE IN
        /\ ld = 4
        /\ wer = [kind |-> "float", num |-> 4, den |-> m]
        /\ substitutions = 1
        /\ substituted_words = <<<<reference_word[p], hypothesis_word[p]>>>>
        /\ insertions = 0 /\ inserted_words = <<>>
        /\ deletions = 0 /\ deleted_words = <<>>

\* C4 as stated: with an empty reference (m = 0) calculations fails with a
\* division error: it never gets past wer = ld / m and returns no record.
C4_EmptyReferenceFails ==
    m = 0 => ~Measured

\* C4 as amended: with an empty reference nothing is raised; wer is the
\* non-finite quotient numpy gives (nan for an empty hypothesis, inf
\* otherwise), the distance is n, every backtrace step is an insertion, and
\* the record returned lists the n hypothesis words as insertions.
C4_EmptyReferenceNonFinite ==
    m = 0 =>
        /\ Measured =>
              /\ ld = n
              /\ wer.kind = (IF n = 0 THEN "nan" ELSE "inf")
        /\ InLoop => ~IsMatch /\ ~IsSubstitution /\ IsInsertion
        /\ Returned =>
              /\ insertions = n /\ inserted_words = hypothesis_word
              /\ deletions = 0 /\ substitutions = 0

C4_Witness ==
    Returned /\ m = 0 /\ n >= 2 /\ wer.kind = "inf" /\ insertions = n

\* C5: the distance returned is the minimum total weighted cost (match 0,
\* insertion 3, deletion 3, substitution 4) of turning the reference into
\* the hypothesis.
C5_DistanceIsMinimumCost ==
    Returned => ld = WeightedCost(m, n)

\* C6: identity: for a non-empty R, calculations(R, R) takes only match
\* steps and returns distance 0, wer 0, all counts 0 and all lists empty.
C6_Identity ==
    (reference_word = hypothesis_word /\ m > 0) =>
        /\ InLoop => IsMatch
        /\ Measured =>
              /\ ld = 0
              /\ wer = [kind |-> "float", num |-> 0, den |-> m]
              /\ insertions = 0 /\ deletions = 0 /\ substitutions = 0
              /\ inserted_words = <<>>
              /\ deleted_words = <<>>
              /\ substituted_words = <<>>

C6_Witness ==
    /\ Returned
    /\ reference_word = hypothesis_word
    /\ m >= 2
    /\ reference_word[1] = reference_word[2]
    /\ matches = m

\* C7: order preservation: in the record returned each list is the reverse
\* of the order the backtrace recorded, and so lists its words by strictly
\* increasing position in the hypothesis (insertions), the reference
\* (deletions) or both (substitutions).
C7_OrderPreserved ==
    Returned =>
        /\ Len(inserted_words) = Len(ins_trace)
        /\ \A k \in 1..Len(inserted_words) :
              inserted_words[k] = hypothesis_word[PosOf(ins_trace, k)]
        /\ \A k \in 1..(Len(inserted_words) - 1) :
              PosOf(ins_trace, k) < PosOf(ins_trace, k + 1)
        /\ Len(deleted_words) = Len(del_trace)
        /\ \A k \in 1..Len(deleted_words) :
              deleted_words[k] = reference_word[PosOf(del_trace, k)]
        /\ \A k \in 1..(Len(deleted_words) - 1) :
              PosOf(del_trace, k) < PosOf(del_trace, k + 1)
        /\ Len(substituted_words) = Len(sub_trace)
        /\ \A k \in 1..Len(substituted_words) :
              substituted_words[k] =
                  <<reference_word[PosOf(sub_trace, k)[1]],
                    hypothesis_word[PosOf(sub_trace, k)[2]]>>
        /\ \A k \in 1..(Len(substituted_words) - 1) :
              /\ PosOf(sub_trace, k)[1] < PosOf(sub_trace, k + 1)[1]
              /\ PosOf(sub_trace, k)[2] < PosOf(sub_trace, k + 1)[2]

C7_Witness ==
    /\ Returned
    /\ Len(inserted_words) >= 2
    /\ inserted_words[1] # inserted_words[2]
    /\ Len(deleted_words) >= 2
    /\ deleted_words[1] # deleted_words[2]

\* C8: the recorded edits account for the backtrace path: with matches the
\* number of match steps, substitutions + deletions + matches is the number
\* of reference words consumed and substitutions + insertions + matches the
\* number of hypothesis words consumed (m and n once the loop has ended),
\* and each count is the length of its list.
C8_EditsAccountForPath ==
    Measured =>
        /\ substitutions + deletions + matches = m - i
        /\ substitutions + insertions + matches = n - j
        /\ insertions = Len(inserted_words)
        /\ deletions = Len(deleted_words)
        /\ substitutions = Len(substituted_words)
        /\ Returned => i = 0 /\ j = 0

C8_Witness ==
    Returned /\ matches > 0 /\ insertions > 0 /\ deletions > 0

LengthsDiffer ==
    /\ reference.shape = "list"
    /\ hypothesis.shape = "list"
    /\ Len(reference.elems) # Len(hypothesis.elems)

\* Some element handed to wers is not a text.
SomeNotText ==
    \/ \E k \in 1..Len(reference.elems) : reference.elems[k].type # "str"
    \/ \E k \in 1..Len(hypothesis.elems) : hypothesis.elems[k].type # "str"

\* metrics has returned a result to wers.
MetricsReturned ==
    stage = "else" \/ (stage = "returned" /\ raised = "none")

\* C3: metrics called with two collections of different lengths (a length
\* of 1 included) fails with the shape-mismatch error: it never returns a
\* result to its caller.
C3_LengthMismatchRaises ==
    LengthsDiffer => ~MetricsReturned

\* C9: wers never propagates the failure of metrics: for collections of
\* different lengths or an element that is not a text it prints the
\* diagnostic and returns nothing; in every other completed call it
\* returns the wer field in the shape of the input: one value for a pair of
\* texts, a sequence of length k in input order for collections of length k.
C9_WersShape ==
    stage = "returned" =>
        IF LengthsDiffer \/ SomeNotText
        THEN /\ wers_result = Absent
             /\ printed \in {"ValueError", "AttributeError"}
        ELSE IF reference.shape = "scalar" /\ hypothesis.shape = "scalar"
        THEN /\ printed = "none"
             /\ wers_result.shape = "scalar"
             /\ wers_result.vals = <<results[1].wer>>
        ELSE IF reference.shape = "list" /\ hypothesis.shape = "list"
        THEN LET k == Len(reference.elems) IN
             /\ printed = "none"
             /\ wers_result.shape = "list"
             /\ Len(wers_result.vals) = k
             /\ \A t \in 1..k :
                   /\ wers_result.vals[t] = results[t].wer
                   /\ results[t].m = Len(reference.elems[t].words)
        ELSE TRUE

====
